---- MODULE Spec2Model ----
(***************************************************************************)
(* Codebook-index frequency analysis of WJerry0706/Meissonic:              *)
(*   draw.py          count_tensor_frequencies_torch, save_counts_to_file, *)
(*                    and the script's main block                          *)
(*   compare_index.py parse_frequency_file and the comparison script       *)
(* Text is modelled as sequences of one-character strings, a Python dict   *)
(* as the sequence of its <<key, value>> items in insertion order.         *)
(***************************************************************************)
EXTENDS Integers, Sequences, FiniteSets, TLC

\* ------------------------------------------------------------------ bounds
\* number of names ending in ".pt" the input directory may hold
MaxPt == 3
\* largest number of elements of one tensor file
MaxLen == 2
\* largest token value stored in a tensor file
MaxIndex == 2
\* largest number of elements loaded in one run
MaxTotal == 2
\* largest max_files_to_read of a direct call
MaxLimit == 4
\* FILE_LIMIT of the script
FILE_LIMIT == 1500
\* save/parse of one dict: its keys are KeyStride * (0..MaxKey), its counts
\* CountStride * (0..MaxCount)
MaxKey == 2
KeyStride == 6
MaxCount == 2
CountStride == 51
\* the comparison: keys 0..CmpMaxKey, counts CmpUnit * (0..CmpMaxCount)
CmpMaxKey == 1
CmpMaxCount == 2
CmpUnit == 5
RankLen == 11          \* most entries of a map the summary is run on
RankShort == 3         \* most entries of a map with counts up to RankMaxCount
RankMaxCount == 3      \* largest count in such a map
DecMaxKey == 0         \* largest index on a writer's line of a file to decode
DecMaxCount == 2       \* largest count on such a line
DecMaxLines == 2       \* most lines in such a file
MaxEntries == 3        \* most entries of the directory collect.py scans
MaxImages == 5         \* most image names in the folder divide.py splits
MaxParts == 4          \* largest num_parts

\* ------------------------------------------------------------- arithmetic
MinOf(S) == CHOOSE x \in S : \A y \in S : x <= y
MaxOf(S) == CHOOSE x \in S : \A y \in S : y <= x

RECURSIVE SumSeq(_)
SumSeq(s) == IF s = <<>> THEN 0 ELSE Head(s) + SumSeq(Tail(s))

RECURSIVE Gcd(_, _)
Gcd(a, b) == IF b = 0 THEN a ELSE Gcd(b, a % b)
Abs(a) == IF a < 0 THEN 0 - a ELSE a

\* the exact value num / den (den # 0) in lowest terms, den > 0
Rat(num, den) ==
    LET g == Gcd(Abs(num), Abs(den))
        sign == IF den < 0 THEN -1 ELSE 1
    IN  [num |-> sign * (num \div g), den |-> sign * (den \div g)]

\* ------------------------------------------------------------------- text
DigitChars == <<"0", "1", "2", "3", "4", "5", "6", "7", "8", "9">>
Digits == {DigitChars[i] : i \in 1..10}
\* what \s matches among the characters the model writes
Whitespace == {" ", "\t", "\n", "\r", "\f"}

\* code point of the characters that occur in file names
CharCode(c) ==
    CASE c = "." -> 46
      [] c = "B" -> 66
      [] c = "a" -> 97
      [] c = "b" -> 98
      [] c = "c" -> 99
      [] c = "d" -> 100
      [] c = "p" -> 112
      [] c = "t" -> 116
      [] c = "x" -> 120

\* str < str: code-point lexicographic order
StrLess(s, t) ==
    LET n == IF Len(s) < Len(t) THEN Len(s) ELSE Len(t)
        diff == {i \in 1..n : s[i] # t[i]}
    IN  IF diff = {} THEN Len(s) < Len(t)
        ELSE CharCode(s[MinOf(diff)]) < CharCode(t[MinOf(diff)])

\* str.endswith
EndsWith(s, suffix) ==
    /\ Len(s) >= Len(suffix)
    /\ SubSeq(s, Len(s) - Len(suffix) + 1, Len(s)) = suffix

\* str(n) / f"{n}" of an int
RECURSIVE IntToStr(_)
IntToStr(n) ==
    IF n < 0 THEN <<"-">> \o IntToStr(0 - n)
    ELSE IF n < 10 THEN <<DigitChars[n + 1]>>
    ELSE IntToStr(n \div 10) \o <<DigitChars[(n % 10) + 1]>>

DigitValue(c) == (CHOOSE i \in 1..10 : DigitChars[i] = c) - 1

\* int(s) of a string of decimal digits
RECURSIVE StrToInt(_)
StrToInt(s) ==
    IF s = <<>> THEN 0
    ELSE 10 * StrToInt(SubSeq(s, 1, Len(s) - 1)) + DigitValue(s[Len(s)])

\* ----------------------------------------------------------------- stdout
\* a printed line: its fixed text and the file name or format it names
MsgAbout(text, what) == [msg |-> text, arg |-> what]
Msg(text) == MsgAbout(text, <<>>)

\* ------------------------------------------------------------------ dicts
Keys(d) == {d[i][1] : i \in DOMAIN d}
Values(d) == [i \in DOMAIN d |-> d[i][2]]
HasKey(d, k) == \E i \in DOMAIN d : d[i][1] = k
\* d.get(k, default)
Get(d, k, default) ==
    IF HasKey(d, k) THEN d[CHOOSE i \in DOMAIN d : d[i][1] = k][2] ELSE default
\* d[k] = v: a present key keeps its place, a new key goes last
DictSet(d, k, v) ==
    IF HasKey(d, k)
    THEN [i \in DOMAIN d |-> IF d[i][1] = k THEN <<k, v>> ELSE d[i]]
    ELSE Append(d, <<k, v>>)
\* d.update(e)
RECURSIVE DictUpdate(_, _)
DictUpdate(d, e) ==
    IF e = <<>> THEN d
    ELSE DictUpdate(DictSet(d, Head(e)[1], Head(e)[2]), Tail(e))
\* d1 == d2 of two dicts: same keys, same value under each key, any order
DictEq(a, b) ==
    /\ Keys(a) = Keys(b)
    /\ \A k \in Keys(a) : Get(a, k, 0) = Get(b, k, 0)

\* ------------------------------------------------- draw.py: file discovery
PT == <<".", "p", "t">>
NameTable ==
    << <<"b", ".", "p", "t">>,
       <<"a", ".", "p", "t">>,
       <<"a", "b", ".", "p", "t">>,
       <<"B", ".", "p", "t">>,
       <<".", "p", "t">>,
       <<"c", ".", "p", "t">> >>
PtNames == {NameTable[i] : i \in 1..MaxPt}
OtherNames == { <<"a", ".", "t", "x", "t">>, <<"a", "p", "t">> }
AllNames == PtNames \cup OtherNames

\* the orders in which os.listdir may enumerate a directory
Perms(S) ==
    {s \in [1..Cardinality(S) -> S] : \A i, j \in DOMAIN s : s[i] = s[j] => i = j}

\* [f for f in os.listdir(directory_path) if f.endswith(".pt")]
RECURSIVE FilterPt(_)
FilterPt(listing) ==
    IF listing = <<>> THEN <<>>
    ELSE IF EndsWith(Head(listing), PT)
         THEN <<Head(listing)>> \o FilterPt(Tail(listing))
         ELSE FilterPt(Tail(listing))

\* insertion of x into an ascending list, after the entries not above it
RECURSIVE InsertName(_, _)
InsertName(x, sorted) ==
    IF sorted = <<>> THEN <<x>>
    ELSE IF StrLess(x, Head(sorted)) THEN <<x>> \o sorted
    ELSE <<Head(sorted)>> \o InsertName(x, Tail(sorted))

RECURSIVE SortedNames(_)
SortedNames(names) ==
    IF names = <<>> THEN <<>>
    ELSE InsertName(names[Len(names)], SortedNames(SubSeq(names, 1, Len(names) - 1)))

\* all_pt_files.sort() without the sort
UnsortedNames(names) == names

\* all_pt_files.sort()
SortNames(names) == SortedNames(names)

\* seq[:n]
SliceTo(seq, n) ==
    IF n >= 0
    THEN SubSeq(seq, 1, IF n < Len(seq) THEN n ELSE Len(seq))
    ELSE SubSeq(seq, 1, IF Len(seq) + n > 0 THEN Len(seq) + n ELSE 0)

\* an optional int: None, or <<n>> for the int n
None == <<>>
Some(n) == <<n>>

\* files_to_process of a listing and max_files_to_read
FilesToProcess(listing, limit) ==
    LET all_pt_files == SortNames(FilterPt(listing))
    IN  IF limit # None THEN SliceTo(all_pt_files, limit[1]) ELSE all_pt_files

\* --------------------------------------------------- draw.py: aggregation
\* what torch.load(filepath) followed by flatten() gives: a flat tensor of
\* token values, or "fail" when either raises
Tensors == UNION {[1..n -> 0..MaxIndex] : n \in 0..MaxLen}
Failed == [ok |-> FALSE, tensor |-> <<>>]
LoadOutcomes == {[ok |-> TRUE, tensor |-> t] : t \in Tensors} \cup {Failed}

\* torch.cat(all_elements)
RECURSIVE Cat(_)
Cat(tensors) == IF tensors = <<>> THEN <<>> ELSE Head(tensors) \o Cat(Tail(tensors))

RECURSIVE SetToSortedSeq(_)
SetToSortedSeq(S) ==
    IF S = {} THEN <<>> ELSE <<MinOf(S)>> \o SetToSortedSeq(S \ {MinOf(S)})

Occurrences(t, v) == Cardinality({i \in DOMAIN t : t[i] = v})

\* a count of 1 for every value seen
UniqueOnes(t) ==
    LET unique_elements == SetToSortedSeq({t[i] : i \in DOMAIN t})
    IN  [i \in DOMAIN unique_elements |-> <<unique_elements[i], 1>>]

\* dict(zip(unique_elements.tolist(), counts.tolist())) of
\* torch.unique(t, return_counts=True): ascending values with their counts
UniqueCounts(t) ==
    LET unique_elements == SetToSortedSeq({t[i] : i \in DOMAIN t})
    IN  [i \in DOMAIN unique_elements |->
            <<unique_elements[i], Occurrences(t, unique_elements[i])>>]

\* the update of the zero-filled range left out
NoFill(frequency_dict) == frequency_dict

\* full_range_counts: {i: 0 for i in range(max_index + 1)}, then
\* update(frequency_dict)
FullRangeCounts(frequency_dict) ==
    LET max_index == MaxOf(Keys(frequency_dict))
        zeros == [i \in 1..(max_index + 1) |-> <<i - 1, 0>>]
    IN  DictUpdate(zeros, frequency_dict)

\* steps 4 and 5 of count_tensor_frequencies_torch: the returned dict and
\* what is printed on the way
CountAndFill(elements) ==
    IF elements = <<>>
    THEN [ret |-> <<>>, out |-> <<Msg("No tensors were successfully loaded.")>>]
    ELSE LET frequency_dict == UniqueCounts(Cat(elements))
         IN  IF frequency_dict = <<>>
             THEN [ret |-> <<>>, out |-> <<Msg("No elements found in tensors.")>>]
             ELSE [ret |-> FullRangeCounts(frequency_dict),
                   out |-> <<Msg("Highest index found"), Msg("Analysis Complete")>>]

\* ------------------------------------------- draw.py: save_counts_to_file
\* the output path as the file system holds it: its parent directory is
\* "missing", a "dir", or a regular "file"; the file itself is absent or
\* holds lines of text
NoFile == [exists |-> FALSE, lines |-> <<>>]
FileOf(text) == [exists |-> TRUE, lines |-> text]

Header1 == <<"C", "o", "d", "e", "b", "o", "o", "k", " ", "I", "n", "d", "e", "x", " ", "C", "o", "u", "n", "t", "s", ":", "\n">>
Header2 == <<"-", "-", "-", "-", "-", "-", "-", "-", "-", "-", "-", "-", "-", "-", "-", "-", "-", "-", "-", "-", "-", "-", "\n">>

\* sorted(counts_dict.items(), key=lambda item: item[0]): a stable sort
RECURSIVE InsertByKey(_, _)
InsertByKey(item, sorted) ==
    IF sorted = <<>> THEN <<item>>
    ELSE IF item[1] < Head(sorted)[1] THEN <<item>> \o sorted
    ELSE <<Head(sorted)>> \o InsertByKey(item, Tail(sorted))

RECURSIVE SortItemsByKey(_)
SortItemsByKey(items) ==
    IF items = <<>> THEN <<>>
    ELSE InsertByKey(items[Len(items)], SortItemsByKey(SubSeq(items, 1, Len(items) - 1)))

\* the entry line without the space after the colon
IndexLineNoSpace(index, count) ==
    <<"I", "n", "d", "e", "x", " ">> \o IntToStr(index) \o <<":">>
        \o IntToStr(count) \o <<"\n">>

\* f"Index {index}: {count}\n"
IndexLine(index, count) ==
    <<"I", "n", "d", "e", "x", " ">> \o IntToStr(index) \o <<":", " ">>
        \o IntToStr(count) \o <<"\n">>

\* the lines the 'txt' branch writes
EncodeTxt(counts_dict) ==
    LET sorted_items == SortItemsByKey(counts_dict)
    IN  <<Header1, Header2>>
        \o [i \in DOMAIN sorted_items |->
                IndexLine(sorted_items[i][1], sorted_items[i][2])]

\* the lines json.dump({str(k): v ...}, f, indent=4) writes
EncodeJson(counts_dict) ==
    IF counts_dict = <<>> THEN << <<"{", "}">> >>
    ELSE << <<"{", "\n">> >>
         \o [i \in DOMAIN counts_dict |->
                <<" ", " ", " ", " ", "\"">> \o IntToStr(counts_dict[i][1])
                \o <<"\"", ":", " ">> \o IntToStr(counts_dict[i][2])
                \o (IF i < Len(counts_dict) THEN <<",", "\n">> ELSE <<"\n">>)]
         \o << <<"}">> >>

\* os.makedirs(os.path.dirname(output_file_path) or '.', exist_ok=True)
MakeDirs(parent) == IF parent = "missing" THEN "dir" ELSE parent

\* save_counts_to_file: the file system after the call, what it printed and
\* whether it raised (os.makedirs raises when the parent is a regular file)
SaveCountsToFile(counts_dict, fmt, parent, file) ==
    IF parent = "file"
    THEN [parent |-> parent, file |-> file, out |-> <<>>, raised |-> TRUE]
    ELSE IF fmt = "txt"
    THEN [parent |-> MakeDirs(parent), file |-> FileOf(EncodeTxt(counts_dict)),
          out |-> <<Msg("Counts saved to plain text file")>>, raised |-> FALSE]
    ELSE IF fmt = "json"
    THEN [parent |-> MakeDirs(parent), file |-> FileOf(EncodeJson(counts_dict)),
          out |-> <<Msg("Counts saved to JSON file")>>, raised |-> FALSE]
    ELSE [parent |-> MakeDirs(parent), file |-> file,
          out |-> <<MsgAbout("Unsupported output format", fmt)>>, raised |-> FALSE]

\* ---------------------------------- compare_index.py: parse_frequency_file
\* the end of the longest run of characters of class S that starts at q
\* (q - 1 when line[q] is not in S)
RunEnd(line, q, S) ==
    LET stop == {j \in q..Len(line) : line[j] \notin S}
    IN  IF stop = {} THEN Len(line) ELSE MinOf(stop) - 1

\* a match of r'Index\s+(\d+):\s+(\d+)' that starts at position p: the ends
\* of its four runs. The classes \s, \d and ':' are disjoint, so each greedy
\* run is the whole run and the match at p is unique.
MatchAt(line, p) ==
    LET ws1 == RunEnd(line, p + 5, Whitespace)
        d1 == RunEnd(line, ws1 + 1, Digits)
        ws2 == RunEnd(line, d1 + 2, Whitespace)
        d2 == RunEnd(line, ws2 + 1, Digits)
    IN  [ok |-> /\ p + 4 <= Len(line)
                /\ SubSeq(line, p, p + 4) = <<"I", "n", "d", "e", "x">>
                /\ ws1 >= p + 5
                /\ d1 >= ws1 + 1
                /\ d1 + 1 <= Len(line)
                /\ line[d1 + 1] = ":"
                /\ ws2 >= d1 + 2
                /\ d2 >= ws2 + 1,
         group1 |-> SubSeq(line, ws1 + 1, d1),
         group2 |-> SubSeq(line, ws2 + 1, d2)]

\* line_pattern.match(line): a match at the start of the line only
SearchAtStart(line) ==
    IF MatchAt(line, 1).ok THEN MatchAt(line, 1)
    ELSE [ok |-> FALSE, group1 |-> <<>>, group2 |-> <<>>]

\* line_pattern.search(line): the leftmost match, or no match
Search(line) ==
    LET starts == {p \in 1..Len(line) : MatchAt(line, p).ok}
    IN  IF starts = {} THEN [ok |-> FALSE, group1 |-> <<>>, group2 |-> <<>>]
        ELSE MatchAt(line, MinOf(starts))

\* the loop over the lines of the file
RECURSIVE ParseLines(_, _)
ParseLines(lines, freq_dict) ==
    IF lines = <<>> THEN freq_dict
    ELSE LET match == Search(Head(lines))
         IN  IF match.ok
             THEN ParseLines(Tail(lines),
                     DictSet(freq_dict, StrToInt(match.group1), StrToInt(match.group2)))
             ELSE ParseLines(Tail(lines), freq_dict)

\* parse_frequency_file: the returned dict and what it printed
ParseFrequencyFile(file) ==
    IF ~file.exists
    THEN [ret |-> <<>>, out |-> <<Msg("Error: File not found")>>]
    ELSE [ret |-> ParseLines(file.lines, <<>>), out |-> <<>>]

\* ------------------------------------------------------------------ state
VARIABLES
    pc,                 \* where the running script or call stands
    log,                \* the lines printed so far
    \* draw.py
    caller,             \* "script": draw.py run as a script; "direct": a call
                        \* of count_tensor_frequencies_torch
    dirExists,          \* whether directory_path names a directory
    dirFiles,           \* the names in it
    disk,               \* what torch.load gave for each file read so far
    max_files_to_read,
    files_to_process,
    idx,                \* position of the load loop in files_to_process
    all_elements,
    frequency_counts,   \* the dict count_tensor_frequencies_torch returned
    \* the output path of save_counts_to_file / input of parse_frequency_file
    fsParent,
    fsFile,
    \* save_counts_to_file and parse_frequency_file called on one path
    counts_dict,
    format,
    raised,
    freq_dict,
    \* compare_index.py
    file1,              \* the file at file1_path
    file2,              \* the file at file2_path
    freq1,
    freq2,
    x_values,
    y_values,
    regression_results, \* None until the regression has run
    \* draw.py: the summary of the script
    total_sum_counts,
    average_count,      \* an exact fraction
    top_10_indices,
    last_10_indices,
    \* collect.py
    target_is_dir,      \* whether target_dir names a directory
    target_entries,     \* the names in it
    files_to_delete,
    stdin,              \* what the user does at the prompt
    confirm,            \* the answer read, in lower case
    del_idx,            \* position of the deletion loop in files_to_delete
    deleted_count,
    \* divide.py
    num_parts,
    source_names,       \* the names in image_folder
    image_files,
    total_images,
    images_per_part,
    remainder,
    start_idx,
    part,               \* the loop variable
    part_folders        \* what was copied into each part folder, in order

drawVars == <<caller, dirExists, dirFiles, disk, max_files_to_read,
              files_to_process, idx, all_elements, frequency_counts>>
fsVars == <<fsParent, fsFile>>
codecVars == <<counts_dict, format, raised, freq_dict>>
cmpVars == <<file1, file2, freq1, freq2, x_values, y_values, regression_results>>
sumVars == <<total_sum_counts, average_count, top_10_indices, last_10_indices>>
collectVars == <<target_is_dir, target_entries, files_to_delete, stdin, confirm,
                 del_idx, deleted_count>>
divideVars == <<num_parts, source_names, image_files, total_images,
                images_per_part, remainder, start_idx, part, part_folders>>
extVars == <<collectVars, divideVars>>
vars == <<pc, log, drawVars, fsVars, codecVars, cmpVars, sumVars, extVars>>

SumIdle ==
    /\ total_sum_counts = 0
    /\ average_count = Rat(0, 1)
    /\ top_10_indices = <<>>
    /\ last_10_indices = <<>>

CollectIdle ==
    /\ target_is_dir = FALSE
    /\ target_entries = {}
    /\ files_to_delete = <<>>
    /\ stdin = [interrupt |-> FALSE, text |-> <<>>]
    /\ confirm = <<>>
    /\ del_idx = 0
    /\ deleted_count = 0

DivideIdle ==
    /\ num_parts = 0
    /\ source_names = {}
    /\ image_files = <<>>
    /\ total_images = 0
    /\ images_per_part = 0
    /\ remainder = 0
    /\ start_idx = 0
    /\ part = 0
    /\ part_folders = <<>>

DrawIdle ==
    /\ caller = "none"
    /\ dirExists = FALSE
    /\ dirFiles = {}
    /\ disk = <<>>
    /\ max_files_to_read = None
    /\ files_to_process = <<>>
    /\ idx = 0
    /\ all_elements = <<>>
    /\ frequency_counts = <<>>

CodecIdle ==
    /\ counts_dict = <<>>
    /\ format = "txt"
    /\ raised = FALSE
    /\ freq_dict = <<>>

CmpIdle ==
    /\ file1 = NoFile
    /\ file2 = NoFile
    /\ freq1 = <<>>
    /\ freq2 = <<>>
    /\ x_values = <<>>
    /\ y_values = <<>>
    /\ regression_results = None

\* ------------------------------------------------------ draw.py: the run
TotalLen(tensors) == Len(Cat(tensors))

InitDraw ==
    /\ pc \in {"script", "call"}
    /\ log = <<>>
    /\ caller = IF pc = "script" THEN "script" ELSE "direct"
    /\ dirExists \in BOOLEAN
    /\ dirFiles \in SUBSET AllNames
    /\ dirExists = FALSE => dirFiles = {}
    /\ disk = <<>>
    /\ max_files_to_read \in
          IF pc = "script" THEN {Some(FILE_LIMIT)}
          ELSE {None} \cup {Some(n) : n \in 0..MaxLimit}
    /\ files_to_process = <<>>
    /\ idx = 0
    /\ all_elements = <<>>
    /\ frequency_counts = <<>>
    /\ fsParent \in {"missing", "dir"}
    /\ fsParent = "missing" => pc = "script"
    /\ fsFile = NoFile
    /\ CodecIdle
    /\ CmpIdle
    /\ SumIdle
    /\ CollectIdle
    /\ DivideIdle

\* the script's check of pt_files_directory before it calls the function
MainGuard ==
    /\ pc = "script"
    /\ IF ~dirExists
       THEN /\ log' = log \o <<Msg("Error: Input directory not found.")>>
            /\ pc' = "exit"
       ELSE /\ pc' = "call"
            /\ log' = log
    /\ UNCHANGED <<drawVars, fsVars, codecVars, cmpVars,
                   sumVars, extVars>>

\* the except FileNotFoundError branch without its print
NotFoundSilent == [ret |-> <<>>, out |-> <<>>]

\* except FileNotFoundError: print the error, return {}
NotFoundOutcome == [ret |-> <<>>, out |-> <<Msg("Error: Directory not found")>>]

\* steps 1 and 2: list, filter, sort, limit. A missing directory returns {}
Discover ==
    /\ pc = "call"
    /\ IF ~dirExists
       THEN /\ log' = log \o NotFoundOutcome.out
            /\ frequency_counts' = NotFoundOutcome.ret
            /\ pc' = "returned"
            /\ UNCHANGED <<files_to_process, idx>>
       ELSE \E listing \in Perms(dirFiles) :
            /\ files_to_process' = FilesToProcess(listing, max_files_to_read)
            /\ log' = log \o
                 (IF max_files_to_read = None THEN <<>>
                  ELSE IF max_files_to_read[1] > Len(FilterPt(listing))
                  THEN <<Msg("Warning: Requested more files than found")>>
                  ELSE <<Msg("Limiting analysis to the first files")>>)
            /\ idx' = 1
            /\ pc' = "load"
            /\ UNCHANGED frequency_counts
    /\ UNCHANGED <<caller, dirExists, dirFiles, disk, max_files_to_read,
                   all_elements, fsVars, codecVars, cmpVars,
                   sumVars, extVars>>

\* the except branch of the load loop left out: a failing file ends the call
LoadAbort(filename, loaded) ==
    IF loaded.ok
    THEN /\ all_elements' = Append(all_elements, loaded.tensor)
         /\ idx' = idx + 1
         /\ UNCHANGED <<log, pc, frequency_counts>>
    ELSE /\ pc' = "raised"
         /\ UNCHANGED <<all_elements, idx, log, frequency_counts>>

\* the body of the load loop for one file and what torch.load gave for it
LoadOne(filename, loaded) ==
    IF loaded.ok
    THEN /\ all_elements' = Append(all_elements, loaded.tensor)
         /\ idx' = idx + 1
         /\ UNCHANGED <<log, pc, frequency_counts>>
    ELSE /\ log' = log \o <<MsgAbout("Could not load tensor from", filename)>>
         /\ idx' = idx + 1
         /\ UNCHANGED <<all_elements, pc, frequency_counts>>

\* step 3, one iteration
Load ==
    /\ pc = "load"
    /\ idx <= Len(files_to_process)
    /\ \E loaded \in LoadOutcomes :
          /\ TotalLen(all_elements) + Len(loaded.tensor) <= MaxTotal
          /\ disk' = disk @@ (files_to_process[idx] :> loaded)
          /\ LoadOne(files_to_process[idx], loaded)
    /\ UNCHANGED <<caller, dirExists, dirFiles, max_files_to_read,
                   files_to_process, fsVars, codecVars, cmpVars,
                   sumVars, extVars>>

\* steps 4 and 5, after the last file
Return ==
    /\ pc = "load"
    /\ idx > Len(files_to_process)
    /\ frequency_counts' = CountAndFill(all_elements).ret
    /\ log' = log \o CountAndFill(all_elements).out
    /\ pc' = "returned"
    /\ UNCHANGED <<caller, dirExists, dirFiles, disk, max_files_to_read,
                   files_to_process, idx, all_elements, fsVars, codecVars, cmpVars,
                   sumVars, extVars>>

\* the number of entries the summary lists at either end
TOP_K == 10

\* insertion that puts an entry before the entries of the same count
RECURSIVE InsertTiesFirst(_, _)
InsertTiesFirst(item, sorted) ==
    IF sorted = <<>> THEN <<item>>
    ELSE IF item[2] >= Head(sorted)[2] THEN <<item>> \o sorted
    ELSE <<Head(sorted)>> \o InsertTiesFirst(item, Tail(sorted))

\* insertion of an entry into a list of descending counts, after the
\* entries of the same count
RECURSIVE InsertByCountDesc(_, _)
InsertByCountDesc(item, sorted) ==
    IF sorted = <<>> THEN <<item>>
    ELSE IF item[2] > Head(sorted)[2] THEN <<item>> \o sorted
    ELSE <<Head(sorted)>> \o InsertByCountDesc(item, Tail(sorted))

\* sorted(frequency_counts.items(), key=lambda item: item[1], reverse=True):
\* a stable sort, entries of equal count keep the dict's order
RECURSIVE SortedCounts(_)
SortedCounts(items) ==
    IF items = <<>> THEN <<>>
    ELSE InsertByCountDesc(items[Len(items)],
                           SortedCounts(SubSeq(items, 1, Len(items) - 1)))

\* seq[-n:]
SliceLast(seq, n) ==
    SubSeq(seq, (IF Len(seq) - n > 0 THEN Len(seq) - n ELSE 0) + 1, Len(seq))

\* the script after the call: save and summarise, or report no data
MainReport ==
    /\ pc = "returned"
    /\ caller = "script"
    /\ IF frequency_counts # <<>>
       THEN LET saved == SaveCountsToFile(frequency_counts, "txt", fsParent, fsFile)
                sorted_counts == SortedCounts(frequency_counts)
            IN  /\ fsParent' = saved.parent
                /\ fsFile' = saved.file
                /\ log' = log \o <<Msg("--- Saving Results ---")>> \o saved.out
                             \o <<Msg("--- Summary ---")>>
                /\ total_sum_counts' = SumSeq(Values(frequency_counts))
                /\ average_count' = Rat(SumSeq(Values(frequency_counts)),
                                         Len(frequency_counts))
                /\ top_10_indices' = SliceTo(sorted_counts, TOP_K)
                /\ last_10_indices' = SliceLast(sorted_counts, TOP_K)
       ELSE /\ log' = log \o <<Msg("No data processed.")>>
            /\ UNCHANGED <<fsVars, sumVars>>
    /\ pc' = "exit"
    /\ UNCHANGED <<drawVars, codecVars, cmpVars, extVars>>

NextDraw ==
    \/ MainGuard
    \/ Discover
    \/ Load
    \/ Return
    \/ MainReport

Spec == InitDraw /\ [][NextDraw]_vars

\* ------------------------------- save_counts_to_file, parse_frequency_file
\* one call of save_counts_to_file on a path, then parse_frequency_file on it
CodecKeys == {KeyStride * i : i \in 0..MaxKey}
CodecCounts == {CountStride * j : j \in 0..MaxCount}
\* the dicts over these keys and counts, in every insertion order
CodecDicts ==
    UNION {{d \in [1..n -> CodecKeys \X CodecCounts] :
               \A i, j \in 1..n : d[i][1] = d[j][1] => i = j}
           : n \in 0..Cardinality(CodecKeys)}
\* a file left at the path by an earlier run
StaleFile == FileOf(EncodeTxt(<< <<1, 1>> >>))

InitCodec ==
    /\ pc = "save"
    /\ log = <<>>
    /\ DrawIdle
    /\ SumIdle
    /\ CollectIdle
    /\ DivideIdle
    /\ fsParent \in {"missing", "dir", "file"}
    /\ fsFile \in {NoFile, StaleFile}
    /\ fsParent # "dir" => fsFile = NoFile
    /\ counts_dict \in CodecDicts
    /\ format \in {"txt", "json", "xml"}
    /\ raised = FALSE
    /\ freq_dict = <<>>
    /\ CmpIdle

\* save_counts_to_file(counts_dict, path, format)
Save ==
    /\ pc = "save"
    /\ LET saved == SaveCountsToFile(counts_dict, format, fsParent, fsFile)
       IN  /\ fsParent' = saved.parent
           /\ fsFile' = saved.file
           /\ log' = log \o saved.out
           /\ raised' = saved.raised
           /\ pc' = IF saved.raised THEN "raised" ELSE "saved"
    /\ UNCHANGED <<drawVars, counts_dict, format, freq_dict, cmpVars,
                   sumVars, extVars>>

\* parse_frequency_file(path)
Parse ==
    /\ pc = "saved"
    /\ freq_dict' = ParseFrequencyFile(fsFile).ret
    /\ log' = log \o ParseFrequencyFile(fsFile).out
    /\ pc' = "parsed"
    /\ UNCHANGED <<drawVars, fsVars, counts_dict, format, raised, cmpVars,
                   sumVars, extVars>>

NextCodec ==
    \/ Save
    \/ Parse

SpecCodec == InitCodec /\ [][NextCodec]_vars

\* ----------------------------------------------- claims on save and parse
\* C3: a dict written in the 'txt' format and read back by
\* parse_frequency_file comes back with the same keys and the same counts,
\* whatever its insertion order and whatever the path held before.
C3_TextRoundTrip ==
    (pc = "parsed" /\ format = "txt") => DictEq(freq_dict, counts_dict)

\* C3 witness: a dict inserted in descending key order, with a two-digit key
\* and a three-digit count, written over a stale file and read back
C3_Witness ==
    /\ pc = "parsed"
    /\ format = "txt"
    /\ Len(counts_dict) >= 2
    /\ counts_dict[1][1] > counts_dict[2][1]
    /\ counts_dict[1][1] >= 10
    /\ counts_dict[1][2] >= 100
    /\ Len(freq_dict) = Len(counts_dict)

\* C4: a dict written in the 'json' format and decoded again comes back
\* equal, with its integer keys restored. parse_frequency_file is the one
\* decoder of the repository.
C4_JsonRoundTrip ==
    (pc = "parsed" /\ format = "json") => DictEq(freq_dict, counts_dict)

\* C7: a call with a format other than 'txt' and 'json' reports the format,
\* does not raise, and leaves the output file and its parent directory as
\* they were.
C7_UnsupportedFormatNoOp ==
    [][(pc = "save" /\ format \notin {"txt", "json"}) =>
          /\ raised' = FALSE
          /\ fsParent' = fsParent
          /\ fsFile' = fsFile
          /\ log' = log \o <<MsgAbout("Unsupported output format", format)>>]_vars

\* ------------------------- parse_frequency_file on a file of any origin
Spaces(n) == [i \in 1..n |-> " "]

\* the text 'Index<a spaces><k>:<b spaces><c>'
Shape(k, a, c, b) ==
    <<"I", "n", "d", "e", "x">> \o Spaces(a) \o IntToStr(k) \o <<":">>
        \o Spaces(b) \o IntToStr(c)

\* lines as the writer makes them, over a few indices and counts
PlainLines == {IndexLine(k, c) : k \in 0..DecMaxKey, c \in 1..DecMaxCount}
\* the index on the lines that are not the writer's
OddKey == DecMaxKey + 1
\* one such line with whitespace around it and wider gaps
PaddedLine == <<" ", "\t">> \o Shape(OddKey, 2, DecMaxCount, 2) \o <<" ", "\n">>
\* one with other text before and after
WrappedLine == <<"x", " ">> \o Shape(OddKey, 1, DecMaxCount, 1) \o <<" ", "y", "\n">>
\* one without the space after the colon
CrampedLine == IndexLineNoSpace(OddKey, DecMaxCount)
BlankLine == <<"\n">>

LinePool ==
    PlainLines \cup {PaddedLine, WrappedLine, CrampedLine, BlankLine, Header1, Header2}

DecodeFiles ==
    {FileOf(lines) : lines \in UNION {[1..n -> LinePool] : n \in 0..DecMaxLines}}

\* a text file at the path, whoever wrote it
InitDecode ==
    /\ pc = "saved"
    /\ log = <<>>
    /\ DrawIdle
    /\ SumIdle
    /\ CollectIdle
    /\ DivideIdle
    /\ fsParent = "dir"
    /\ fsFile \in DecodeFiles
    /\ counts_dict = <<>>
    /\ format = "txt"
    /\ raised = FALSE
    /\ freq_dict = <<>>
    /\ CmpIdle

NextDecode == Parse

SpecDecode == InitDecode /\ [][NextDecode]_vars

\* ------------------------------------------------- claims on the decoder
Gaps == 1..2
Margins == 0..2
DecKeys == 0..OddKey
DecCounts == 1..DecMaxCount

\* the line is Index k: c and nothing else but whitespace around it
ExactShape(line, k, c) ==
    \E a, b \in Gaps, lead, trail \in Margins :
        \E ws \in [1..(lead + trail) -> Whitespace \ {"\n"}] :
            line = SubSeq(ws, 1, lead) \o Shape(k, a, c, b)
                      \o SubSeq(ws, lead + 1, lead + trail) \o <<"\n">>

\* Index k: c stands somewhere in the line, its count not running on
Occurs(line, k, c) ==
    \E a, b \in Gaps, p \in 1..Len(line) :
        LET s == Shape(k, a, c, b)
            q == p + Len(s)
        IN  /\ q - 1 <= Len(line)
            /\ SubSeq(line, p, q - 1) = s
            /\ q <= Len(line) => line[q] \notin Digits

SeqPerms(seq) ==
    {[i \in DOMAIN seq |-> seq[f[i]]] : f \in Perms(DOMAIN seq)}

OrderFree ==
    \A perm \in SeqPerms(fsFile.lines) : DictEq(ParseLines(perm, <<>>), freq_dict)

\* no two lines give one index two counts
NoConflict ==
    \A i, j \in DOMAIN fsFile.lines : \A k \in DecKeys : \A c, d \in DecCounts :
        Occurs(fsFile.lines[i], k, c) /\ Occurs(fsFile.lines[j], k, d) => c = d

\* C13 as stated: the decoded map is the same for every order of the lines,
\* and it holds exactly the pairs of the lines that are 'Index <int>: <int>'
\* with nothing but whitespace around; every other line is ignored.
C13_ExactShapeOnly ==
    pc = "parsed" =>
        /\ OrderFree
        /\ Keys(freq_dict) =
              {k \in DecKeys : \E i \in DOMAIN fsFile.lines : \E c \in DecCounts :
                                  ExactShape(fsFile.lines[i], k, c)}
        /\ \A k \in Keys(freq_dict) : \E i \in DOMAIN fsFile.lines :
              ExactShape(fsFile.lines[i], k, Get(freq_dict, k, 0))

\* C13: the decoded map holds a pair for every line in which
\* 'Index <int>: <int>' occurs, text before or after it or not; for an index
\* on several lines the count of the last of them in the file; lines without
\* an occurrence are ignored. The map is the same for every order of the
\* lines when no two lines give one index two counts.
C13_SearchAnywhereLastWins ==
    pc = "parsed" =>
        /\ Keys(freq_dict) =
              {k \in DecKeys : \E i \in DOMAIN fsFile.lines : \E c \in DecCounts :
                                  Occurs(fsFile.lines[i], k, c)}
        /\ \A k \in Keys(freq_dict) :
              LET with == {i \in DOMAIN fsFile.lines :
                              \E c \in DecCounts : Occurs(fsFile.lines[i], k, c)}
              IN  Occurs(fsFile.lines[MaxOf(with)], k, Get(freq_dict, k, 0))
        /\ NoConflict => OrderFree

\* C13 witness: a file of a header and a line with text around the pair,
\* decoded to that pair
C13_Witness ==
    /\ pc = "parsed"
    /\ \E i, h \in DOMAIN fsFile.lines :
          /\ fsFile.lines[i] = WrappedLine
          /\ fsFile.lines[h] = Header1
    /\ freq_dict = << <<OddKey, DecMaxCount>> >>

\* ------------------------------------- compare_index.py: the comparison
\* the value r2_score gives for fewer than two samples
NaN == [num |-> 0, den |-> 0]

\* the keys of the first dict alone
KeysOfFirst(d1, d2) == SetToSortedSeq(Keys(d1))

\* sorted(list(set(freq1.keys()) | set(freq2.keys())))
AllIndices(d1, d2) == SetToSortedSeq(Keys(d1) \cup Keys(d2))

\* [d.get(index, 0) for index in all_indices]
ValuesAt(d, all_indices) == [i \in DOMAIN all_indices |-> Get(d, all_indices[i], 0)]

Dot(x, y) == SumSeq([i \in DOMAIN x |-> x[i] * y[i]])

\* the fit with the mean of y as intercept, the slope's share left out
RegressionMeanIntercept(x, y) ==
    LET n == Len(x)
        sxx == n * Dot(x, x) - SumSeq(x) * SumSeq(x)
        sxy == n * Dot(x, y) - SumSeq(x) * SumSeq(y)
        syy == n * Dot(y, y) - SumSeq(y) * SumSeq(y)
    IN  [slope |-> IF sxx = 0 THEN Rat(0, 1) ELSE Rat(sxy, sxx),
         intercept |-> Rat(SumSeq(y), n),
         r2 |-> IF n < 2 THEN NaN ELSE IF syy = 0 THEN Rat(1, 1)
                ELSE IF sxx = 0 THEN Rat(0, 1) ELSE Rat(sxy * sxy, sxx * syy)]

\* LinearRegression().fit(x, y), predict and r2_score in exact arithmetic:
\* the least-squares line through the centred data (slope 0 when x has no
\* variance: the minimum-norm solution), and 1 - SS_res / SS_tot (1 when
\* both are 0, nan for a single sample)
Regression(x, y) ==
    LET n == Len(x)
        sxx == n * Dot(x, x) - SumSeq(x) * SumSeq(x)
        sxy == n * Dot(x, y) - SumSeq(x) * SumSeq(y)
        syy == n * Dot(y, y) - SumSeq(y) * SumSeq(y)
    IN  IF sxx = 0
        THEN [slope |-> Rat(0, 1),
              intercept |-> Rat(SumSeq(y), n),
              r2 |-> IF n < 2 THEN NaN ELSE IF syy = 0 THEN Rat(1, 1) ELSE Rat(0, 1)]
        ELSE [slope |-> Rat(sxy, sxx),
              intercept |-> Rat(SumSeq(y) * sxx - sxy * SumSeq(x), n * sxx),
              r2 |-> IF syy = 0 THEN Rat(1, 1) ELSE Rat(sxy * sxy, sxx * syy)]

\* the guard with "or" for "and"
EitherNonEmpty(d1, d2) == d1 # <<>> \/ d2 # <<>>

\* if freq1 and freq2:
BothNonEmpty(d1, d2) == d1 # <<>> /\ d2 # <<>>

CmpKeys == 0..CmpMaxKey
CmpCounts == {CmpUnit * j : j \in 0..CmpMaxCount}
\* the count files an earlier run of draw.py may have left: one line per
\* key of a dict over these keys and counts, under the two header lines
CmpDicts ==
    {SelectSeq([k \in 1..(CmpMaxKey + 1) |-> <<k - 1, c[k - 1]>>],
               LAMBDA item : item[2] >= 0)
     : c \in [CmpKeys -> CmpCounts \cup {-1}]}
CmpFiles == {FileOf(EncodeTxt(d)) : d \in CmpDicts} \cup {NoFile}

InitCompare ==
    /\ pc = "parse1"
    /\ log = <<>>
    /\ DrawIdle
    /\ SumIdle
    /\ CollectIdle
    /\ DivideIdle
    /\ fsParent = "dir"
    /\ fsFile = NoFile
    /\ CodecIdle
    /\ file1 \in CmpFiles
    /\ file2 \in CmpFiles
    /\ freq1 = <<>>
    /\ freq2 = <<>>
    /\ x_values = <<>>
    /\ y_values = <<>>
    /\ regression_results = None

\* freq1 = parse_frequency_file(file1_path)
Parse1 ==
    /\ pc = "parse1"
    /\ freq1' = ParseFrequencyFile(file1).ret
    /\ log' = log \o ParseFrequencyFile(file1).out
    /\ pc' = "parse2"
    /\ UNCHANGED <<drawVars, sumVars, extVars, fsVars, codecVars, file1, file2, freq2,
                   x_values, y_values, regression_results>>

\* freq2 = parse_frequency_file(file2_path)
Parse2 ==
    /\ pc = "parse2"
    /\ freq2' = ParseFrequencyFile(file2).ret
    /\ log' = log \o ParseFrequencyFile(file2).out
    /\ pc' = "compare"
    /\ UNCHANGED <<drawVars, sumVars, extVars, fsVars, codecVars, file1, file2, freq1,
                   x_values, y_values, regression_results>>

\* the rest of the script: the regression and its plot, when both dicts
\* have entries
Compare ==
    /\ pc = "compare"
    /\ IF BothNonEmpty(freq1, freq2)
       THEN LET all_indices == AllIndices(freq1, freq2)
                x == ValuesAt(freq1, all_indices)
                y == ValuesAt(freq2, all_indices)
            IN  /\ x_values' = x
                /\ y_values' = y
                /\ regression_results' = Some(Regression(x, y))
                /\ log' = log \o <<Msg("--- Linear Regression Results ---"),
                                   Msg("Comparison plot with regression line saved")>>
       ELSE UNCHANGED <<x_values, y_values, regression_results, log>>
    /\ pc' = "done"
    /\ UNCHANGED <<drawVars, sumVars, extVars, fsVars, codecVars, file1, file2, freq1, freq2>>

NextCompare ==
    \/ Parse1
    \/ Parse2
    \/ Compare

SpecCompare == InitCompare /\ [][NextCompare]_vars

\* ------------------------------------------------ claims on the comparison
\* the union of the keys of the two parsed dicts
Union == Keys(freq1) \cup Keys(freq2)
\* the i-th smallest key of the union
Nth(i) == CHOOSE k \in Union : Cardinality({j \in Union : j < k}) = i - 1
\* the paired vectors are those of the union, in ascending key order
PairedOverUnion ==
    /\ Len(x_values) = Cardinality(Union)
    /\ Len(y_values) = Cardinality(Union)
    /\ \A i \in 1..Cardinality(Union) :
          /\ x_values[i] = (IF HasKey(freq1, Nth(i)) THEN Get(freq1, Nth(i), 0) ELSE 0)
          /\ y_values[i] = (IF HasKey(freq2, Nth(i)) THEN Get(freq2, Nth(i), 0) ELSE 0)
IsError(line) == line.msg = "Error: File not found"

\* C9 as claimed: whenever the key union is not empty, also with one dict
\* empty, the regression runs over the paired vectors of the union.
C9_UnionCompared ==
    (pc = "done" /\ Union # {}) => (regression_results # None /\ PairedOverUnion)

\* C9 as amended: whenever both dicts have entries, disjoint supports
\* included, the regression runs over the paired vectors of the union and
\* gives a result; with an empty dict on either side nothing is computed.
C9_BothNonEmptyCompared ==
    pc = "done" =>
        /\ (freq1 # <<>> /\ freq2 # <<>>) =>
              (regression_results # None /\ PairedOverUnion)
        /\ (freq1 = <<>> \/ freq2 = <<>>) =>
              (regression_results = None /\ x_values = <<>> /\ y_values = <<>>)

\* C9 witness: A = {0: 5}, B = {1: 5} gives x = [5, 0], y = [0, 5] and a result
C9_Witness ==
    /\ pc = "done"
    /\ freq1 = << <<0, 5>> >>
    /\ freq2 = << <<1, 5>> >>
    /\ x_values = <<5, 0>>
    /\ y_values = <<0, 5>>
    /\ regression_results # None

\* C10 as claimed: the comparison fails, without a regression result,
\* exactly when the key union is empty, and the failure is then reported.
C10_EmptyUnionError ==
    pc = "done" =>
        /\ (regression_results = None) <=> (Union = {})
        /\ Union = {} => \E i \in DOMAIN log : IsError(log[i])

\* C10 as amended: the script raises nothing; it produces no regression
\* result exactly when at least one of the two dicts is empty, and then
\* prints nothing of its own: the only report is the 'File not found' line
\* of parse_frequency_file, one for each missing input file.
C10_SkippedWhenEitherEmpty ==
    pc = "done" =>
        /\ (regression_results = None) <=> (freq1 = <<>> \/ freq2 = <<>>)
        /\ Len(SelectSeq(log, IsError)) =
              (IF file1.exists THEN 0 ELSE 1) + (IF file2.exists THEN 0 ELSE 1)
        /\ regression_results = None => \A i \in DOMAIN log : IsError(log[i])

\* C10 witness: both files exist and hold no entry; the script ends without
\* a result and without a printed line
C10_Witness ==
    /\ pc = "done"
    /\ file1.exists
    /\ file2.exists
    /\ Union = {}
    /\ regression_results = None
    /\ log = <<>>

\* the counts of the first dict are not all the same
CountsDiffer == \E i, j \in DOMAIN freq1 : freq1[i][2] # freq1[j][2]
\* the regression has run on a dict compared with itself
SelfCompared == pc = "done" /\ regression_results # None /\ DictEq(freq1, freq2)

\* C11 as claimed: a dict compared with itself gives slope 1, intercept 0 and
\* r2 1, also when all its counts are equal.
C11_IdenticalIsUnitLine ==
    SelfCompared =>
        /\ regression_results[1].slope = Rat(1, 1)
        /\ regression_results[1].intercept = Rat(0, 1)
        /\ regression_results[1].r2 = Rat(1, 1)

\* C11 as amended: a dict compared with itself gives slope 1, intercept 0
\* and r2 1 when its counts are not all equal; when they are all equal (x
\* has no variance) the fit is the flat line: slope 0, intercept the common
\* count, and r2 1 for two or more keys, undefined (nan) for a single key.
C11_IdenticalUnlessConstant ==
    SelfCompared =>
        IF CountsDiffer
        THEN /\ regression_results[1].slope = Rat(1, 1)
             /\ regression_results[1].intercept = Rat(0, 1)
             /\ regression_results[1].r2 = Rat(1, 1)
        ELSE /\ regression_results[1].slope = Rat(0, 1)
             /\ regression_results[1].intercept = Rat(freq1[1][2], 1)
             /\ regression_results[1].r2 =
                   (IF Len(freq1) >= 2 THEN Rat(1, 1) ELSE NaN)

\* C11 witness: a dict with two different counts compared with itself
C11_Witness ==
    /\ SelfCompared
    /\ CountsDiffer
    /\ x_values = y_values
    /\ regression_results[1].slope = Rat(1, 1)

\* ------------------------------------------- draw.py: the summary alone
\* the maps the function returns have the keys 0..n-1 in ascending order
DenseDicts(n, counts) ==
    {[i \in 1..n |-> <<i - 1, c[i]>>] : c \in [1..n -> counts]}

RankDicts ==
    UNION {DenseDicts(n, 0..RankMaxCount) : n \in 0..RankShort}
    \cup UNION {DenseDicts(n, 0..1) : n \in 1..RankLen}

\* the script at line 254, the function having returned a map
InitRank ==
    /\ pc = "returned"
    /\ log = <<>>
    /\ caller = "script"
    /\ dirExists = TRUE
    /\ dirFiles = {}
    /\ disk = <<>>
    /\ max_files_to_read = Some(FILE_LIMIT)
    /\ files_to_process = <<>>
    /\ idx = 0
    /\ all_elements = <<>>
    /\ frequency_counts \in RankDicts
    /\ fsParent = "dir"
    /\ fsFile = NoFile
    /\ CodecIdle
    /\ CmpIdle
    /\ SumIdle
    /\ CollectIdle
    /\ DivideIdle

NextRank == MainReport

SpecRank == InitRank /\ [][NextRank]_vars

\* ------------------------------------------------- claims on the summary
Summarised == pc = "exit" /\ caller = "script" /\ frequency_counts # <<>>

\* position of entry j among the entries in descending order of count,
\* entries of equal count in the map's order
DescRank(j) ==
    Cardinality({i \in DOMAIN frequency_counts :
                    \/ frequency_counts[i][2] > frequency_counts[j][2]
                    \/ /\ frequency_counts[i][2] = frequency_counts[j][2]
                       /\ i < j}) + 1

\* the same in ascending order of count
AscRank(j) ==
    Cardinality({i \in DOMAIN frequency_counts :
                    \/ frequency_counts[i][2] < frequency_counts[j][2]
                    \/ /\ frequency_counts[i][2] = frequency_counts[j][2]
                       /\ i < j}) + 1

DescAt(r) == frequency_counts[CHOOSE j \in DOMAIN frequency_counts : DescRank(j) = r]
AscAt(r) == frequency_counts[CHOOSE j \in DOMAIN frequency_counts : AscRank(j) = r]

Listed == MinOf({TOP_K, Len(frequency_counts)})

SumIsTotal == total_sum_counts = SumSeq(Values(frequency_counts))
TopIsFirstDescending == top_10_indices = [r \in 1..Listed |-> DescAt(r)]

\* C12 as stated: the sum is the total of the counts, the top list is the first
\* K entries of a stable descending sort by count, and the bottom list is the
\* first K entries of a stable ascending sort by count
C12_BottomIsFirstAscending ==
    Summarised =>
        /\ SumIsTotal
        /\ TopIsFirstDescending
        /\ last_10_indices = [r \in 1..Listed |-> AscAt(r)]

\* C12: the sum is the total of the counts, the top list is the first K entries
\* of a stable descending sort by count, and the bottom list is the last K
\* entries of that same descending sort, in its order
C12_BottomIsTailOfDescending ==
    Summarised =>
        /\ SumIsTotal
        /\ TopIsFirstDescending
        /\ last_10_indices =
              [r \in 1..Listed |-> DescAt(Len(frequency_counts) - Listed + r)]

\* C12: a map of more than K entries with equal counts at both ends of the order
C12_Witness ==
    /\ Summarised
    /\ average_count.den > 0
    /\ Len(frequency_counts) > TOP_K
    /\ Len(top_10_indices) = TOP_K
    /\ Len(last_10_indices) = TOP_K
    /\ top_10_indices[1][2] = top_10_indices[2][2]
    /\ last_10_indices[TOP_K - 1][2] = last_10_indices[TOP_K][2]
    /\ top_10_indices[1][2] > last_10_indices[TOP_K][2]

\* ------------------------------------------- claims on the draw.py run
Returned == pc \in {"returned", "exit"} /\ dirExists

\* the directory's names that end in ".pt"
Matching == {f \in dirFiles : EndsWith(f, PT)}

\* the files read so far that decoded
Decoded == {f \in DOMAIN disk : disk[f].ok}

\* the number of elements of the decoded files
DecodedTotal ==
    SumSeq([i \in DOMAIN files_to_process |->
               IF files_to_process[i] \in Decoded
               THEN Len(disk[files_to_process[i]].tensor) ELSE 0])
\* how often value v occurs in the decoded files
Observed(v) ==
    SumSeq([i \in DOMAIN files_to_process |->
               IF files_to_process[i] \in Decoded
               THEN Occurrences(disk[files_to_process[i]].tensor, v) ELSE 0])
ObservedValues == {v \in 0..MaxIndex : Observed(v) > 0}

\* C1: the counts of the returned map sum to the number of elements of the
\* tensors of the files that decoded; the zero-filled entries add nothing.
C1_SumIsElementCount ==
    Returned => SumSeq(Values(frequency_counts)) = DecodedTotal

\* C1 witness: a run with a failed file, a decoded one, and a zero-filled index
C1_Witness ==
    /\ pc = "returned"
    /\ \E f \in DOMAIN disk : ~disk[f].ok
    /\ DecodedTotal = MaxTotal
    /\ \E i \in DOMAIN frequency_counts : frequency_counts[i][2] = 0

\* C2: the returned map of a run that observed values with largest value k
\* has the keys 0..k, each once, with the observed count or 0.
C2_DenseRange ==
    (Returned /\ ObservedValues # {}) =>
        LET k == MaxOf(ObservedValues)
        IN  /\ Keys(frequency_counts) = 0..k
            /\ Len(frequency_counts) = k + 1
            /\ \A i \in 0..k :
                  Get(frequency_counts, i, -1) =
                      IF i \in ObservedValues THEN Observed(i) ELSE 0

\* C2 witness: a sparse observation with gaps below its largest key
C2_Witness ==
    /\ pc = "returned"
    /\ ObservedValues = {MaxIndex}
    /\ Len(frequency_counts) = MaxIndex + 1

\* C5: the files processed are the first min(L, n) matching names in
\* lexicographic order (all n without a limit), whatever the listing order,
\* and a limit above n does not stop the run.
C5_DeterministicDiscovery ==
    (pc \in {"load", "returned", "exit"} /\ dirExists) =>
        LET n == Cardinality(Matching)
            take == IF max_files_to_read = None THEN n
                    ELSE IF max_files_to_read[1] < n THEN max_files_to_read[1]
                    ELSE n
        IN  /\ Len(files_to_process) = take
            /\ \A i \in 1..take :
                  /\ files_to_process[i] \in Matching
                  /\ Cardinality({g \in Matching :
                                     StrLess(g, files_to_process[i])}) = i - 1

\* C5 witness: a limit that cuts a directory of several matching files
C5_Witness ==
    /\ pc = "load"
    /\ max_files_to_read = Some(2)
    /\ Cardinality(Matching) = MaxPt
    /\ Len(files_to_process) = 2

\* C6: a file that fails to decode is reported and skipped, the loop goes on
\* with the next file and never ends the run; the returned counts are those
\* of the decoded files, and the empty map when none decoded.
C6_PartialFailure ==
    /\ pc # "raised"
    /\ (pc \in {"load", "returned", "exit"} /\ dirExists) =>
          LET done == SubSeq(files_to_process, 1, idx - 1)
              IsFailure(f) == ~disk[f].ok
              IsReport(line) == line.msg = "Could not load tensor from"
              reports == SelectSeq(log, IsReport)
          IN  /\ \A i \in DOMAIN done : done[i] \in DOMAIN disk
              /\ [i \in DOMAIN reports |-> reports[i].arg] = SelectSeq(done, IsFailure)
    /\ Returned =>
          /\ idx = Len(files_to_process) + 1
          /\ \A v \in 0..MaxIndex : Get(frequency_counts, v, 0) = Observed(v)
          /\ Keys(frequency_counts) \subseteq 0..MaxIndex
          /\ ObservedValues = {} => frequency_counts = <<>>

\* C6 witness: a failure followed by a decoded file whose counts are returned
C6_Witness ==
    /\ pc = "returned"
    /\ Len(files_to_process) >= 2
    /\ ~disk[files_to_process[1]].ok
    /\ disk[files_to_process[2]].ok
    /\ frequency_counts # <<>>

\* what the call returns for an existing directory without a matching file
EmptyDirReturn == CountAndFill(<<>>).ret

\* C8 as claimed: a call on a missing directory ends in an outcome the caller
\* can tell from that of an existing directory with no matching file.
C8_MissingDirDistinct ==
    (pc = "returned" /\ ~dirExists) => frequency_counts # EmptyDirReturn

\* C8 as amended: the call on a missing directory prints the error and
\* returns the empty dict, the value an existing directory without matching
\* files gives too; only the printed lines differ, and the script tests the
\* directory itself and prints its own error without calling the function.
C8_MissingDirReturnsEmpty ==
    /\ (pc = "returned" /\ ~dirExists) =>
          /\ frequency_counts = <<>>
          /\ log = <<Msg("Error: Directory not found")>>
    /\ (Returned /\ Matching = {}) =>
          /\ frequency_counts = <<>>
          /\ \A i \in DOMAIN log : log[i] # Msg("Error: Directory not found")
          /\ \E i \in DOMAIN log : log[i] = Msg("No tensors were successfully loaded.")
    /\ (caller = "script" /\ ~dirExists /\ pc # "script") =>
          /\ pc = "exit"
          /\ log = <<Msg("Error: Input directory not found.")>>

\* C8 witness: a direct call on a missing directory has returned
C8_Witness == pc = "returned" /\ ~dirExists /\ caller = "direct"

\* ------------------------------------- collect.py: delete_specific_jpgs
\* str.lower on the characters that occur in the names and answers
Lower(c) ==
    CASE c = "J" -> "j"
      [] c = "P" -> "p"
      [] c = "G" -> "g"
      [] c = "E" -> "e"
      [] c = "N" -> "n"
      [] c = "Y" -> "y"
      [] OTHER -> c

LowerStr(str) == [i \in DOMAIN str |-> Lower(str[i])]

\* the position of the last dot of a name, 0 when it has none
LastDot(name) ==
    LET dots == {i \in DOMAIN name : name[i] = "."}
    IN  IF dots = {} THEN 0 ELSE MaxOf(dots)

\* PurePath.suffix: from the last dot on, unless that dot starts or ends the name
Suffix(name) ==
    LET i == LastDot(name)
    IN  IF 1 < i /\ i < Len(name) THEN SubSeq(name, i, Len(name)) ELSE <<>>

\* PurePath.stem: the name without its suffix
Stem(name) == SubSeq(name, 1, Len(name) - Len(Suffix(name)))

\* the extensions the docstring and the comments of lines 25 and 30 name
JpgOrJpeg(suffix) == LowerStr(suffix) \in {<<".", "j", "p", "g">>, <<".", "j", "p", "e", "g">>}

\* f.suffix.lower() in ['.png', '.jpeg']
SuffixSelected(suffix) ==
    LowerStr(suffix) \in {<<".", "p", "n", "g">>, <<".", "j", "p", "e", "g">>}

\* the test of lines 29 and 31 on one entry
Selected(entry) ==
    /\ entry.is_file
    /\ EndsWith(Stem(entry.name), <<"_", "1">>)
    /\ SuffixSelected(Suffix(entry.name))

\* the loop of lines 27 to 32 over what iterdir yields
RECURSIVE SelectFiles(_)
SelectFiles(listing) ==
    IF listing = <<>> THEN <<>>
    ELSE (IF Selected(Head(listing)) THEN <<Head(listing).name>> ELSE <<>>)
         \o SelectFiles(Tail(listing))

\* an answer other than 'n' taken for a yes
NotRefused(answer) == answer # <<"n">>

\* if confirm == 'y'
Confirmed(answer) == answer = <<"y">>

\* the entries a directory may hold: files with these stems and extensions,
\* and two sub-directories named like candidates
FileStems == {<<"a", "_", "1">>, <<"a">>}
Extensions ==
    {<<".", "j", "p", "g">>, <<".", "J", "P", "G">>, <<".", "j", "p", "e", "g">>,
     <<".", "p", "n", "g">>, <<".", "t", "x", "t">>, <<>>}
EntryPool ==
    {[name |-> st \o ext, is_file |-> TRUE] : st \in FileStems, ext \in Extensions}
    \cup {[name |-> <<"d", "_", "1">> \o ext, is_file |-> FALSE] :
             ext \in {<<".", "j", "p", "e", "g">>, <<".", "p", "n", "g">>}}

\* what the user may do at the prompt
Answers ==
    {[interrupt |-> FALSE, text |-> t] :
        t \in {<<"y">>, <<"Y">>, <<"n">>, <<>>, <<"y", "e", "s">>}}
    \cup {[interrupt |-> TRUE, text |-> <<>>]}

InitCollect ==
    /\ pc = "scan"
    /\ log = <<>>
    /\ DrawIdle
    /\ SumIdle
    /\ fsParent = "dir"
    /\ fsFile = NoFile
    /\ CodecIdle
    /\ CmpIdle
    /\ DivideIdle
    /\ target_is_dir \in BOOLEAN
    /\ target_entries \in {E \in SUBSET EntryPool : Cardinality(E) <= MaxEntries}
    /\ target_is_dir = FALSE => target_entries = {}
    /\ files_to_delete = <<>>
    /\ stdin \in Answers
    /\ confirm = <<>>
    /\ del_idx = 0
    /\ deleted_count = 0

\* lines 16 to 41: the directory check, the scan and the list of candidates
Scan ==
    /\ pc = "scan"
    /\ IF ~target_is_dir
       THEN /\ log' = log \o <<Msg("Error: The specified folder does not exist.")>>
            /\ pc' = "done"
            /\ UNCHANGED files_to_delete
       ELSE \E listing \in Perms(target_entries) :
            /\ files_to_delete' = SelectFiles(listing)
            /\ IF SelectFiles(listing) = <<>>
               THEN /\ log' = log \o <<Msg("No matching files found to delete.")>>
                    /\ pc' = "done"
               ELSE /\ log' = log \o <<Msg("Found files to be permanently deleted")>>
                    /\ pc' = "prompt"
    /\ UNCHANGED <<target_is_dir, target_entries, stdin, confirm, del_idx, deleted_count>>
    /\ UNCHANGED <<drawVars, fsVars, codecVars, cmpVars, sumVars, divideVars>>

\* lines 44 to 51 and 62 to 63: the prompt and what follows from the answer
Prompt ==
    /\ pc = "prompt"
    /\ IF stdin.interrupt
       THEN /\ log' = log \o <<Msg("Deletion cancelled by user.")>>
            /\ pc' = "done"
            /\ UNCHANGED <<confirm, del_idx, deleted_count>>
       ELSE /\ confirm' = LowerStr(stdin.text)
            /\ IF Confirmed(LowerStr(stdin.text))
               THEN /\ log' = log \o <<Msg("Proceeding with deletion...")>>
                    /\ deleted_count' = 0
                    /\ del_idx' = 1
                    /\ pc' = "delete"
               ELSE /\ log' = log \o <<Msg("Deletion aborted by user. No files were changed.")>>
                    /\ pc' = "done"
                    /\ UNCHANGED <<del_idx, deleted_count>>
    /\ UNCHANGED <<target_is_dir, target_entries, files_to_delete, stdin>>
    /\ UNCHANGED <<drawVars, fsVars, codecVars, cmpVars, sumVars, divideVars>>

\* lines 54 to 59 for one candidate: unlink it, or report why it cannot be
UnlinkOne(file_path, ok) ==
    /\ IF ok
       THEN /\ target_entries' = {en \in target_entries : en.name # file_path}
            /\ log' = log \o <<MsgAbout("Deleted", file_path)>>
            /\ deleted_count' = deleted_count + 1
       ELSE /\ log' = log \o <<MsgAbout("Error deleting", file_path)>>
            /\ UNCHANGED <<target_entries, deleted_count>>
    /\ del_idx' = del_idx + 1
    /\ pc' = pc

\* one iteration of the loop of line 53
Unlink ==
    /\ pc = "delete"
    /\ del_idx <= Len(files_to_delete)
    /\ \E ok \in BOOLEAN : UnlinkOne(files_to_delete[del_idx], ok)
    /\ UNCHANGED <<target_is_dir, files_to_delete, stdin, confirm>>
    /\ UNCHANGED <<drawVars, fsVars, codecVars, cmpVars, sumVars, divideVars>>

\* line 61, after the last candidate
Finish ==
    /\ pc = "delete"
    /\ del_idx > Len(files_to_delete)
    /\ log' = log \o <<Msg("Successfully deleted files.")>>
    /\ pc' = "done"
    /\ UNCHANGED <<collectVars, drawVars, fsVars, codecVars, cmpVars, sumVars, divideVars>>

NextCollect ==
    \/ Scan
    \/ Prompt
    \/ Unlink
    \/ Finish

SpecCollect == InitCollect /\ [][NextCollect]_vars

\* ---------------------------------------------- claims on collect.py
EntryNames == {en.name : en \in target_entries}
Candidates == {files_to_delete[i] : i \in DOMAIN files_to_delete}

\* the scan has run and nothing has been deleted since
Scanned ==
    /\ target_is_dir
    /\ pc = "prompt" \/ (pc = "done" /\ files_to_delete = <<>>)

\* C14: after the scan the candidates are exactly the regular files of the
\* directory whose stem ends with '_1' and whose extension is .jpg or .jpeg in
\* any case; no file with another extension is a candidate.
C14_SelectsJpgAndJpeg ==
    Scanned =>
        Candidates = {en.name : en \in {x \in target_entries :
                                           /\ x.is_file
                                           /\ EndsWith(Stem(x.name), <<"_", "1">>)
                                           /\ JpgOrJpeg(Suffix(x.name))}}

SaidYes == ~stdin.interrupt /\ LowerStr(stdin.text) = <<"y">>

Logged(lines, text, name) ==
    \E j \in DOMAIN lines : lines[j].msg = text /\ lines[j].arg = name

\* C15: the directory changes only by the unlink of the candidate the loop
\* stands at, and only after the answer 'y' in either case; so with any other
\* answer, an interrupt, a missing directory or no candidate it stays as it
\* was. When the loop ends every candidate has been tried, a failure or not
\* before it, and the count is the number of candidates that are gone.
C15_NoUnlinkBeforeYes ==
    [][/\ target_entries' # target_entries =>
             /\ SaidYes
             /\ target_is_dir
             /\ pc = "delete"
             /\ target_entries' =
                   {en \in target_entries : en.name # files_to_delete[del_idx]}
       /\ (pc = "delete" /\ pc' = "done") =>
             /\ \A i \in DOMAIN files_to_delete :
                   IF files_to_delete[i] \in EntryNames
                   THEN Logged(log', "Error deleting", files_to_delete[i])
                   ELSE Logged(log', "Deleted", files_to_delete[i])
             /\ deleted_count' =
                   Cardinality({i \in DOMAIN files_to_delete :
                                   files_to_delete[i] \notin EntryNames})]_vars

\* C15 witness: the answer 'Y', a first candidate that could not be deleted
\* and a second one that was
C15_Witness ==
    /\ pc = "done"
    /\ stdin.text = <<"Y">>
    /\ Len(files_to_delete) = 2
    /\ files_to_delete[1] \in EntryNames
    /\ files_to_delete[2] \notin EntryNames
    /\ deleted_count = 1

\* ------------------------------------------------------------ divide.py
\* f.suffix.lower() in [".png", ".jpg", ".jpeg", ".webp"]
IsImage(name) ==
    LowerStr(Suffix(name)) \in
        {<<".", "p", "n", "g">>, <<".", "j", "p", "g">>,
         <<".", "j", "p", "e", "g">>, <<".", "w", "e", "b", "p">>}

\* one order in which glob("*") may yield the entries, and the opposite one
RECURSIVE Listing(_)
Listing(S) ==
    IF S = {} THEN <<>>
    ELSE LET x == CHOOSE y \in S : TRUE IN <<x>> \o Listing(S \ {x})

Reverse(seq) == [i \in DOMAIN seq |-> seq[Len(seq) + 1 - i]]

GlobOrders(S) == {Listing(S), Reverse(Listing(S))}

\* [f for f in ... if f.suffix.lower() in [...]], as names
RECURSIVE FilterImages(_)
FilterImages(listing) ==
    IF listing = <<>> THEN <<>>
    ELSE (IF IsImage(Head(listing).name) THEN <<Head(listing).name>> ELSE <<>>)
         \o FilterImages(Tail(listing))

\* seq[a:b] for 0 <= a <= b
Slice(seq, a, b) == SubSeq(seq, a + 1, IF b < Len(seq) THEN b ELSE Len(seq))

\* one more image for every part up to and including part number remainder
ExtraOneInclusive(part_no, rem) == IF part_no <= rem THEN 1 ELSE 0

\* (1 if part < remainder else 0)
ExtraOne(part_no, rem) == IF part_no < rem THEN 1 ELSE 0

\* names with image extensions, in no particular order
ImageTable ==
    << <<"b", ".", "p", "n", "g">>,
       <<"a", ".", "j", "p", "g">>,
       <<"B", ".", "J", "P", "E", "G">>,
       <<"d", ".", "w", "e", "b", "p">>,
       <<"c", ".", "P", "N", "G">>,
       <<"x", ".", "j", "p", "e", "g">>,
       <<"a", "b", ".", "p", "n", "g">> >>

\* what image_folder may hold: image files, a text file, a file named '.png'
\* and a sub-directory with an image extension
SourcePool ==
    {[name |-> ImageTable[i], is_file |-> TRUE] : i \in 1..MaxImages}
    \cup {[name |-> <<"t", ".", "t", "x", "t">>, is_file |-> TRUE],
          [name |-> <<".", "p", "n", "g">>, is_file |-> TRUE],
          [name |-> <<"p", ".", "p", "n", "g">>, is_file |-> FALSE]}

IsDirectory(name) == \E en \in source_names : en.name = name /\ ~en.is_file

InitDivide ==
    /\ pc = "glob"
    /\ log = <<>>
    /\ DrawIdle
    /\ SumIdle
    /\ fsParent = "dir"
    /\ fsFile = NoFile
    /\ CodecIdle
    /\ CmpIdle
    /\ CollectIdle
    /\ num_parts \in 1..MaxParts
    /\ source_names \in SUBSET SourcePool
    /\ image_files = <<>>
    /\ total_images = 0
    /\ images_per_part = 0
    /\ remainder = 0
    /\ start_idx = 0
    /\ part = 0
    /\ part_folders = <<>>

\* lines 16 to 35: the list of images and the sizes
Glob ==
    /\ pc = "glob"
    /\ \E listing \in GlobOrders(source_names) :
          LET found == SortNames(FilterImages(listing))
          IN  /\ image_files' = found
              /\ total_images' = Len(found)
              /\ IF Len(found) = 0
                 THEN /\ log' = log \o <<Msg("No images found in the source folder. Exiting.")>>
                      /\ pc' = "exit"
                      /\ UNCHANGED <<images_per_part, remainder>>
                 ELSE /\ images_per_part' = Len(found) \div num_parts
                      /\ remainder' = Len(found) % num_parts
                      /\ log' = log \o <<Msg("Total images")>>
                      /\ pc' = "split"
    /\ start_idx' = 0
    /\ UNCHANGED <<num_parts, source_names, part, part_folders>>
    /\ UNCHANGED <<drawVars, fsVars, codecVars, cmpVars, sumVars, collectVars>>

\* lines 36 to 52, one iteration: the part folder and the copies into it.
\* shutil.copy raises on a directory, which ends the script.
CopyPart ==
    /\ pc = "split"
    /\ part < num_parts
    /\ LET end_idx == start_idx + images_per_part + ExtraOne(part, remainder)
           files_to_copy == Slice(image_files, start_idx, end_idx)
           bad == {i \in DOMAIN files_to_copy : IsDirectory(files_to_copy[i])}
       IN  IF bad = {}
           THEN /\ part_folders' = Append(part_folders, files_to_copy)
                /\ log' = log \o <<Msg("Copied files to part folder")>>
                /\ start_idx' = end_idx
                /\ part' = part + 1
                /\ pc' = pc
           ELSE /\ part_folders' =
                      Append(part_folders, SubSeq(files_to_copy, 1, MinOf(bad) - 1))
                /\ pc' = "raised"
                /\ UNCHANGED <<log, start_idx, part>>
    /\ UNCHANGED <<num_parts, source_names, image_files, total_images,
                   images_per_part, remainder>>
    /\ UNCHANGED <<drawVars, fsVars, codecVars, cmpVars, sumVars, collectVars>>

\* lines 54 and 55, after the last part
SplitDone ==
    /\ pc = "split"
    /\ part = num_parts
    /\ log' = log \o <<Msg("Done copying images")>>
    /\ pc' = "done"
    /\ UNCHANGED <<divideVars, drawVars, fsVars, codecVars, cmpVars, sumVars, collectVars>>

NextDivide ==
    \/ Glob
    \/ CopyPart
    \/ SplitDone

SpecDivide == InitDivide /\ [][NextDivide]_vars

\* ----------------------------------------------- claims on divide.py
InPart(name, p) == \E i \in DOMAIN part_folders[p] : part_folders[p][i] = name

\* C16: after the loop there is one folder per part, the folders put end to
\* end are the sorted list (so the parts are consecutive slices of it), every
\* image is in exactly one folder, the first T mod P folders hold
\* floor(T / P) + 1 images and the others floor(T / P), any two sizes differ
\* by at most one, and the final start index is T.
C16_Partition ==
    (pc = "done" /\ total_images >= 1) =>
        LET T == Len(image_files)
            P == num_parts
        IN  /\ total_images = T
            /\ Len(part_folders) = P
            /\ Cat(part_folders) = image_files
            /\ \A i \in DOMAIN image_files :
                  Cardinality({p \in 1..P : InPart(image_files[i], p)}) = 1
            /\ \A p \in 1..P :
                  Len(part_folders[p]) = (T \div P) + (IF p <= T % P THEN 1 ELSE 0)
            /\ \A p, q \in 1..P :
                  Len(part_folders[p]) - Len(part_folders[q]) <= 1
            /\ start_idx = T

\* C16 witness: more than one part, at least one image in each, and a
\* remainder, from a folder that also held a file that is no image
C16_Witness ==
    /\ pc = "done"
    /\ num_parts > 1
    /\ images_per_part >= 1
    /\ remainder >= 1
    /\ Len(part_folders[1]) > Len(part_folders[num_parts])
    /\ \E en \in source_names : ~IsImage(en.name)

====
